---- MODULE Spec2Model ----
(***************************************************************************)
(* Out-the-door calculator: the Illinois sales-tax lookup                  *)
(* (IllinoisSalesTaxLookup in config.js), the OTD pricing engine           *)
(* (calculator.js) and the down-payment decision engine                    *)
(* (dp-calculator.js), as one state machine.                               *)
(*                                                                         *)
(* Conventions                                                             *)
(*  - A JavaScript string is a sequence of one-character strings, so that  *)
(*    trim / slice / substring / replace are computed.                     *)
(*  - A tax rate is an integer number of 1/10000 (0.0625 is 625).          *)
(*  - A money amount is an integer number of 1/10000 dollar, so that       *)
(*    amount * rate is exact for whole-dollar amounts.                     *)
(*  - JavaScript null / undefined for a county is the string "null".       *)
(*  - A call that throws yields a result with threw = TRUE.                *)
(***************************************************************************)
EXTENDS Integers, Sequences, FiniteSets, TLC

VARIABLES
  data,        \* taxLookup.data: the loaded document, or null
  loaded,      \* taxLookup.loaded
  loadPc,      \* position of the async load(): idle, fetching, parsing, done
  lookup,      \* the last getTaxRate call made by a caller and what it returned
  config,      \* which configuration file the page loaded before calculator.js
  state,       \* the calculator's state object
  ui,          \* the DOM fields the handlers read back
  probe        \* the last direct call of calculateMonthlyPayment and its result

taxVars == <<data, loaded, loadPc, lookup>>
calcVars == <<config, state, ui, probe>>
vars == <<data, loaded, loadPc, lookup, config, state, ui, probe>>

(***************************************************************************)
(* Strings                                                                 *)
(***************************************************************************)
Min(a, b) == IF a <= b THEN a ELSE b
Max(a, b) == IF a >= b THEN a ELSE b

Digits == {"0", "1", "2", "3", "4", "5", "6", "7", "8", "9"}
Whitespace == {" "}

\* String.prototype.slice(0, n)
slice(s, n) == SubSeq(s, 1, Min(n, Len(s)))

\* String.prototype.substring(0, n)
substring(s, n) == SubSeq(s, 1, Min(n, Len(s)))

RECURSIVE trimStart(_)
trimStart(s) ==
  IF s = <<>> THEN <<>>
  ELSE IF Head(s) \in Whitespace THEN trimStart(Tail(s)) ELSE s

RECURSIVE trimEnd(_)
trimEnd(s) ==
  IF s = <<>> THEN <<>>
  ELSE IF s[Len(s)] \in Whitespace THEN trimEnd(SubSeq(s, 1, Len(s) - 1)) ELSE s

\* String.prototype.trim()
trim(s) == trimEnd(trimStart(s))

(***************************************************************************)
(* The tax document (il_sales_tax_lookup.json) as the code reads it.       *)
(* A document is a record with isNull and, when present, the fields        *)
(* chicagoZips, zipToCounty and countyRates.                               *)
(***************************************************************************)
Null == [isNull |-> TRUE]

HasField(d, f) == f \in DOMAIN d

\* The document load() substitutes in its catch block.
FallbackData ==
  [isNull |-> FALSE,
   countyRates |-> [c \in {"DEFAULT"} |-> 625],
   chicagoZips |-> [isArray |-> TRUE, items |-> {}],
   zipToCounty |-> [z \in {} |-> "null"]]

\* The literal rates getTaxRate falls back to.
StateRate == 625
ChicagoRate == 950

DefaultResult ==
  [threw |-> FALSE, rate |-> StateRate, location |-> "Illinois",
   county |-> "null", isEstimate |-> TRUE]

\* A call that raised a TypeError returns nothing.
Thrown ==
  [threw |-> TRUE, rate |-> 0 - 1, location |-> "", county |-> "null",
   isEstimate |-> FALSE]

\* _formatCountyName, on the county codes of the model.
formatCountyName(countyName) ==
  IF countyName = "null" THEN "Illinois"
  ELSE IF countyName = "SAINT_CLAIR" THEN "St. Clair County"
  ELSE IF countyName = "COOK_CHICAGO" THEN "Chicago"
  ELSE IF countyName = "COOK" THEN "Cook County"
  ELSE IF countyName = "ROCK_ISLAND" THEN "Rock Island County"
  ELSE IF countyName = "DEFAULT" THEN "Illinois"
  ELSE IF countyName = "MCHENRY" THEN "McHenry County"
  ELSE IF countyName = "LAKE" THEN "Lake County"
  ELSE IF countyName = "WINNEBAGO" THEN "Winnebago County"
  ELSE IF countyName = "CHAMPAIGN" THEN "Champaign County"
  ELSE IF countyName = "MADISON" THEN "Madison County"
  ELSE IF countyName = "SANGAMON" THEN "Sangamon County"
  ELSE "County"

\* _getCountyByPrefix: the prefixMap literal; '606' is not a key of it.
getCountyByPrefix(prefix) ==
  IF prefix \in {<<"6","0","0">>, <<"6","0","1">>, <<"6","0","2">>, <<"6","0","3">>,
                 <<"6","0","4">>, <<"6","0","5">>, <<"6","0","7">>, <<"6","0","8">>}
    THEN "COOK"
  ELSE IF prefix \in {<<"6","1","0">>, <<"6","1","1">>} THEN "WINNEBAGO"
  ELSE IF prefix = <<"6","1","8">> THEN "CHAMPAIGN"
  ELSE IF prefix \in {<<"6","2","0">>, <<"6","2","1">>} THEN "MADISON"
  ELSE IF prefix = <<"6","2","2">> THEN "SAINT_CLAIR"
  ELSE IF prefix = <<"6","2","7">> THEN "SANGAMON"
  ELSE IF prefix \in {<<"6","2","3">>, <<"6","2","4">>, <<"6","2","5">>,
                      <<"6","2","6">>, <<"6","2","8">>, <<"6","2","9">>}
    THEN "DEFAULT"
  ELSE "null"

\* this.data.countyRates[c]: 0 stands for undefined (both are falsy).
rateOf(d, c) == IF c \in DOMAIN d.countyRates THEN d.countyRates[c] ELSE 0

\* this.data.zipToCounty ? this.data.zipToCounty[zip] : null
countyOf(d, zip) ==
  IF HasField(d, "zipToCounty") /\ zip \in DOMAIN d.zipToCounty
    THEN d.zipToCounty[zip] ELSE "null"

\* The guard of getTaxRate: !this.loaded || !this.data
notReady(l, d) == ~l \/ d.isNull

\* getTaxRate on a loaded, non-null document d.
resolve(d, zipCode) ==
  LET normalizedZip == slice(trim(zipCode), 5)
      hasRates == HasField(d, "countyRates")
      county == countyOf(d, normalizedZip)
      zipPrefix == substring(normalizedZip, 3)
      county_by_prefix == getCountyByPrefix(zipPrefix)
  IN
  IF HasField(d, "chicagoZips") /\ ~d.chicagoZips.isArray THEN Thrown
  ELSE IF HasField(d, "chicagoZips") /\ normalizedZip \in d.chicagoZips.items THEN
    IF ~hasRates THEN Thrown
    ELSE [threw |-> FALSE,
          rate |-> IF rateOf(d, "COOK_CHICAGO") # 0
                     THEN rateOf(d, "COOK_CHICAGO") ELSE ChicagoRate,
          location |-> "Chicago", county |-> "COOK", isEstimate |-> FALSE]
  ELSE IF county # "null" /\ ~hasRates THEN Thrown
  ELSE IF county # "null" /\ rateOf(d, county) # 0 THEN
    [threw |-> FALSE, rate |-> rateOf(d, county),
     location |-> formatCountyName(county), county |-> county,
     isEstimate |-> FALSE]
  ELSE IF county_by_prefix # "null" /\ ~hasRates THEN Thrown
  ELSE IF county_by_prefix # "null" /\ rateOf(d, county_by_prefix) # 0 THEN
    [threw |-> FALSE, rate |-> rateOf(d, county_by_prefix),
     location |-> formatCountyName(county_by_prefix),
     county |-> county_by_prefix, isEstimate |-> FALSE]
  ELSE IF ~hasRates THEN Thrown
  ELSE [threw |-> FALSE,
        rate |-> IF rateOf(d, "DEFAULT") # 0 THEN rateOf(d, "DEFAULT") ELSE StateRate,
        location |-> "Illinois", county |-> "null", isEstimate |-> TRUE]

\* Three variants of getTaxRate, each with one rule changed; the properties
\* of the lookup must tell every one of them apart from getTaxRate.
\* The ZIP->county map is consulted before the Chicago list.
getTaxRateMapFirst(zipCode) ==
  IF notReady(loaded, data) THEN DefaultResult
  ELSE LET county == countyOf(data, slice(trim(zipCode), 5))
       IN IF county # "null" /\ HasField(data, "countyRates") /\ rateOf(data, county) # 0
            THEN [threw |-> FALSE, rate |-> rateOf(data, county),
                  location |-> formatCountyName(county), county |-> county,
                  isEstimate |-> FALSE]
          ELSE resolve(data, zipCode)

\* A result decided by the prefix table is flagged as an estimate.
getTaxRatePrefixEstimate(zipCode) ==
  IF notReady(loaded, data) THEN DefaultResult
  ELSE LET r == resolve(data, zipCode)
       IN IF /\ ~r.threw /\ r.county # "null" /\ r.location # "Chicago"
             /\ countyOf(data, slice(trim(zipCode), 5)) = "null"
            THEN [r EXCEPT !.isEstimate = TRUE]
          ELSE r

\* The guard on this.loaded and this.data is left out.
getTaxRateUnguarded(zipCode) ==
  IF data.isNull THEN Thrown ELSE resolve(data, zipCode)

\* IllinoisSalesTaxLookup.getTaxRate(zipCode), on the current taxLookup.
getTaxRate(zipCode) ==
  IF notReady(loaded, data) THEN DefaultResult ELSE resolve(data, zipCode)

(***************************************************************************)
(* Documents the fetch can deliver, and the ZIP strings callers pass.      *)
(***************************************************************************)
Z60601 == <<"6","0","6","0","1">>
Z60602 == <<"6","0","6","0","2">>
Z60025 == <<"6","0","0","2","5">>
Z60010 == <<"6","0","0","1","0">>
Z60401 == <<"6","0","4","0","1">>
Z60699 == <<"6","0","6","9","9">>
Z62301 == <<"6","2","3","0","1">>
Z62701 == <<"6","2","7","0","1">>
Z99999 == <<"9","9","9","9","9">>

FullRates ==
  ("COOK_CHICAGO" :> 950) @@ ("COOK" :> 825) @@ ("LAKE" :> 725) @@
  ("WINNEBAGO" :> 725) @@ ("CHAMPAIGN" :> 725) @@ ("MADISON" :> 725) @@
  ("SAINT_CLAIR" :> 725) @@ ("SANGAMON" :> 625) @@ ("DEFAULT" :> 625)

\* Rates for the named counties only: neither DEFAULT nor COOK_CHICAGO.
CountyOnlyRates ==
  ("COOK" :> 825) @@ ("LAKE" :> 725) @@ ("SANGAMON" :> 625)

\* A rate map that lacks the counties the ZIP and prefix maps refer to.
SparseRates == ("DEFAULT" :> 700)

ZipMap ==
  (Z60025 :> "COOK") @@ (Z60010 :> "LAKE") @@ (Z62701 :> "SANGAMON") @@
  (Z60601 :> "COOK")

ChicagoList == [isArray |-> TRUE, items |-> {Z60601, Z60602}]

DocFull ==
  [isNull |-> FALSE, countyRates |-> FullRates, chicagoZips |-> ChicagoList,
   zipToCounty |-> ZipMap]
DocNoChicago ==
  [isNull |-> FALSE, countyRates |-> FullRates, zipToCounty |-> ZipMap]
DocNoZipMap ==
  [isNull |-> FALSE, countyRates |-> FullRates, chicagoZips |-> ChicagoList]
DocNoRates ==
  [isNull |-> FALSE, chicagoZips |-> ChicagoList, zipToCounty |-> ZipMap]
DocEmpty == [isNull |-> FALSE]
DocBadChicago ==
  [isNull |-> FALSE, countyRates |-> FullRates,
   chicagoZips |-> [isArray |-> FALSE, items |-> {}], zipToCounty |-> ZipMap]
DocSparse ==
  [isNull |-> FALSE, countyRates |-> SparseRates, chicagoZips |-> ChicagoList,
   zipToCounty |-> ZipMap]
DocCountyOnly ==
  [isNull |-> FALSE, countyRates |-> CountyOnlyRates, chicagoZips |-> ChicagoList,
   zipToCounty |-> ZipMap]

\* Every field present, with the types the code expects.
WellTyped(d) ==
  /\ ~d.isNull
  /\ HasField(d, "countyRates")
  /\ HasField(d, "zipToCounty")
  /\ HasField(d, "chicagoZips") /\ d.chicagoZips.isArray

Documents ==
  {DocFull, DocNoChicago, DocNoZipMap, DocNoRates, DocEmpty, DocBadChicago,
   DocSparse, DocCountyOnly, Null}

ZipInputs ==
  {Z60601, Z60602, Z60025, Z60010, Z60401, Z60699, Z62301, Z62701, Z99999,
   <<>>, <<"6","0">>, <<" ">> \o Z60025 \o <<" ">>, Z60601 \o <<"-","1","2","3","4">>,
   <<"a","b","c">>}

(***************************************************************************)
(* load(): async; the awaits are the points where other code can run.      *)
(***************************************************************************)
\* initTaxLookup calls load(); it runs to the first await (the fetch).
LoadStart ==
  /\ loadPc = "idle"
  /\ ~loaded
  /\ loadPc' = "fetching"
  /\ UNCHANGED <<data, loaded, lookup>>
  /\ UNCHANGED calcVars

\* fetch() resolved: load() goes on to await response.json().
FetchResolve ==
  /\ loadPc = "fetching"
  /\ loadPc' = "parsing"
  /\ UNCHANGED <<data, loaded, lookup>>
  /\ UNCHANGED calcVars

\* The catch block: the fallback document, then loaded = true.
loadFailed == [data |-> FallbackData, loaded |-> TRUE]

\* response.json() resolved with doc: data = doc, then loaded = true.
loadSucceeded(doc) == [data |-> doc, loaded |-> TRUE]

\* fetch() rejected (network error).
FetchReject ==
  /\ loadPc = "fetching"
  /\ data' = loadFailed.data
  /\ loaded' = loadFailed.loaded
  /\ loadPc' = "done"
  /\ UNCHANGED lookup
  /\ UNCHANGED calcVars

\* response.json() resolved with one of the documents.
JsonResolve ==
  /\ loadPc = "parsing"
  /\ \E doc \in Documents :
       /\ data' = loadSucceeded(doc).data
       /\ loaded' = loadSucceeded(doc).loaded
  /\ loadPc' = "done"
  /\ UNCHANGED lookup
  /\ UNCHANGED calcVars

\* response.json() rejected (not JSON, e.g. a 404 page).
JsonReject ==
  /\ loadPc = "parsing"
  /\ data' = loadFailed.data
  /\ loaded' = loadFailed.loaded
  /\ loadPc' = "done"
  /\ UNCHANGED lookup
  /\ UNCHANGED calcVars

\* A caller looks a ZIP up, at any point of the load.
GetTaxRate ==
  /\ \E zip \in ZipInputs :
       lookup' = [called |-> TRUE, zip |-> zip, during |-> loadPc,
                  failed |-> (loadPc = "done" /\ data = FallbackData),
                  result |-> getTaxRate(zip)]
  /\ UNCHANGED <<data, loaded, loadPc>>
  /\ UNCHANGED calcVars

(***************************************************************************)
(* Numbers.  Every JavaScript number is held as an integer number of       *)
(* 1/Scale; products and quotients are truncated to that grid.  Growth     *)
(* factors (1+i)^n are held as an integer number of 1/Fine.                *)
(***************************************************************************)
Scale == 100 * 100
Fine == 1000 * 1000

Dollars(n) == n * Scale
Pct(n) == n * 100          \* n hundredths, e.g. Pct(499) is 4.99

\* The base in which mulQR reads b: 2^10 where c is small enough for a whole
\* step to stay below 2^31, otherwise 2.
mulBase(c) == IF c <= 2^20 THEN 2^10 ELSE 2

\* One step of mulQR: from <<q, r>> for b \div mulBase(c) to <<q, r>> for b.
mulStep(h, a, b, c) ==
  <<mulBase(c) * h[1] + (mulBase(c) * h[2] + (b % mulBase(c)) * a) \div c,
    (mulBase(c) * h[2] + (b % mulBase(c)) * a) % c>>

\* <<q, r>> with a * b = q * c + r and 0 <= r < c, for 0 <= a < c, b >= 0,
\* computed without forming a * b (the shorter product is evaluated once).
RECURSIVE mulQR(_, _, _)
mulQR(a, b, c) ==
  IF b = 0 THEN <<0, 0>>
  ELSE CHOOSE r \in {mulStep(h, a, b, c) : h \in {mulQR(a, b \div mulBase(c), c)}} : TRUE

\* floor(a * b / c) for a, b >= 0 and c > 0.
mulDiv(a, b, c) == (a \div c) * b + mulQR(a % c, b, c)[1]

\* Math.pow(x, n) for a non-negative integer n, x and the result in 1/Fine.
RECURSIVE pow(_, _)
pow(x, n) ==
  IF n = 0 THEN Fine
  ELSE IF n % 2 = 0
    THEN CHOOSE r \in {mulDiv(h, h, Fine) : h \in {pow(x, n \div 2)}} : TRUE
  ELSE mulDiv(x, pow(x, n - 1), Fine)

RECURSIVE SumSeq(_)
SumSeq(s) == IF s = <<>> THEN 0 ELSE Head(s) + SumSeq(Tail(s))

(***************************************************************************)
(* Configuration: config.js, and the other configuration file of the       *)
(* repository (unnamed/part_001), which defines CONFIG and TAX_RATES for   *)
(* the same calculator.js.                                                 *)
(***************************************************************************)
Terms == {24, 36, 48, 60, 72, 84}
Tiers == {"excellent", "good", "fair", "poor"}

TierRates(r24, r36, r48, r60, r72, r84) ==
  (24 :> Pct(r24)) @@ (36 :> Pct(r36)) @@ (48 :> Pct(r48)) @@
  (60 :> Pct(r60)) @@ (72 :> Pct(r72)) @@ (84 :> Pct(r84))

Fee(amount, taxable) == [amount |-> Dollars(amount), taxable |-> taxable]

ConfigJs ==
  [defaultTaxRate |-> 625,
   fees |-> [docPrep |-> Fee(377, FALSE), ert |-> Fee(35, TRUE),
             title |-> Fee(165, FALSE), registration |-> Fee(151, FALSE),
             cookCounty |-> Fee(15, FALSE)],
   creditTiers |->
     [excellent |-> TierRates(499, 549, 599, 649, 699, 749),
      good |-> TierRates(699, 749, 799, 849, 899, 949),
      fair |-> TierRates(999, 1049, 1099, 1149, 1199, 1249),
      poor |-> TierRates(1499, 1549, 1599, 1649, 1699, 1749)],
   downPaymentCalc |->
     [defaultInvestmentReturn |-> 700,
      defaultGainsTaxRate |-> 1500,
      residualByTerm |-> (24 :> 6500) @@ (36 :> 5700) @@ (48 :> 4900) @@
                         (60 :> 4100) @@ (72 :> 3400) @@ (84 :> 2800),
      maintenanceByYear |->
        (1 :> Dollars(500)) @@ (2 :> Dollars(600)) @@ (3 :> Dollars(900)) @@
        (4 :> Dollars(1000)) @@ (5 :> Dollars(1200)) @@ (6 :> Dollars(1400)) @@
        (7 :> Dollars(1600))]]

\* unnamed/part_001 has no downPaymentCalc; the field is carried here only to
\* keep one record shape and is read by no code that runs with this file.
ConfigLegacy ==
  [defaultTaxRate |-> 725,
   fees |-> [docPrep |-> Fee(377, TRUE), ert |-> Fee(35, TRUE),
             title |-> Fee(165, FALSE), registration |-> Fee(151, FALSE),
             cookCounty |-> Fee(15, FALSE)],
   creditTiers |->
     [excellent |-> TierRates(549, 599, 649, 649, 699, 749),
      good |-> TierRates(649, 699, 749, 749, 799, 849),
      fair |-> TierRates(949, 999, 1049, 1049, 1099, 1149),
      poor |-> TierRates(1249, 1299, 1349, 1349, 1399, 1449)],
   downPaymentCalc |-> ConfigJs.downPaymentCalc]

Z60004 == <<"6","0","0","0","4">>
Z60101 == <<"6","0","1","0","1">>

\* TAX_RATES of unnamed/part_001, for the ZIPs of the model.
TaxRatesLegacy ==
  (Z60004 :> [rate |-> 1000, city |-> "Arlington Heights", county |-> "Cook"]) @@
  (Z60025 :> [rate |-> 1000, city |-> "Glenview", county |-> "Cook"]) @@
  (Z60010 :> [rate |-> 725, city |-> "Barrington", county |-> "Lake"]) @@
  (Z60101 :> [rate |-> 800, city |-> "Addison", county |-> "DuPage"])

\* TAX_RATES of config.js: const TAX_RATES = {}, which no code fills.
TaxRatesJs == [z \in {} |-> [rate |-> 0, city |-> "", county |-> ""]]

Configs == {"config.js", "part_001"}

CONFIG == IF config = "config.js" THEN ConfigJs ELSE ConfigLegacy
TAX_RATES == IF config = "config.js" THEN TaxRatesJs ELSE TaxRatesLegacy

(***************************************************************************)
(* calculator.js: the calculation engine                                   *)
(***************************************************************************)
\* const state = {...}, extended by dp-calculator.js's Object.assign.
InitialState(cfg) ==
  [vehiclePrice |-> 0,
   zipCode |-> <<>>,
   taxRate |-> cfg.defaultTaxRate,
   taxLocation |-> "",
   isCookCounty |-> FALSE,
   tradeInActive |-> FALSE,
   tradeValue |-> 0,
   tradeOwed |-> 0,
   addons |-> <<>>,
   discounts |-> <<>>,
   specialAprs |-> <<>>,
   creditTier |-> "excellent",
   downPayment |-> 0,
   selectedTerm |-> 60,
   investmentReturn |-> cfg.downPaymentCalc.defaultInvestmentReturn,
   gainsTaxRate |-> cfg.downPaymentCalc.defaultGainsTaxRate,
   residualPct |-> cfg.downPaymentCalc.residualByTerm[60],
   maintenanceCosts |-> cfg.downPaymentCalc.maintenanceByYear]

\* state.specialAprs.find(s => s.term === term): index of the first, or 0.
findSpecial(aprs, term) ==
  IF \E i \in 1..Len(aprs) : aprs[i].term = term
    THEN CHOOSE i \in 1..Len(aprs) :
           /\ aprs[i].term = term
           /\ \A j \in 1..(i - 1) : aprs[j].term # term
    ELSE 0

\* A variant of getAprForTerm: any special APR overrides every term.
getAprForTermAnySpecial(term) ==
  IF state.specialAprs # <<>>
    THEN [rate |-> state.specialAprs[1].rate, isSpecial |-> TRUE]
  ELSE [rate |-> CONFIG.creditTiers[state.creditTier][term], isSpecial |-> FALSE]

\* getAprForTerm(term), reading the state object st.
getAprForTermOn(st, term) ==
  LET k == findSpecial(st.specialAprs, term) IN
  IF k # 0 THEN [rate |-> st.specialAprs[k].rate, isSpecial |-> TRUE]
  ELSE [rate |-> CONFIG.creditTiers[st.creditTier][term], isSpecial |-> FALSE]

getAprForTerm(term) == getAprForTermOn(state, term)

\* A JavaScript number that may not be finite (Infinity, NaN).
Finite(x) == [finite |-> TRUE, value |-> x]
NonFinite == [finite |-> FALSE, value |-> 0]

\* calculateMonthlyPayment.  annualRate is a percentage; monthlyRate is held
\* in 1/Fine.  On that grid 1 + monthlyRate is 1 for a positive rate below
\* 12/Fine, as it is in double arithmetic for a monthly rate below 2^-53:
\* the denominator is then 0, the quotient Infinity, and isFinite fails.
\* The zero-rate branch returns its quotient as it is.
\* A variant of calculateMonthlyPayment: no branch for a rate of zero, so that
\* the annuity formula divides by zero and the guard answers 0.
calculateMonthlyPaymentAnnuityOnly(principal, annualRate, termMonths) ==
  IF principal <= 0 THEN Finite(0)
  ELSE LET monthlyRate == annualRate \div 12
       IN CHOOSE r \in
            {IF growth = Fine THEN Finite(0)
             ELSE Finite(mulDiv(mulDiv(principal, monthlyRate, growth - Fine), growth, Fine))
               : growth \in {pow(Fine + monthlyRate, termMonths)}} : TRUE

\* calculateMonthlyPayment(principal, annualRate, termMonths).  The quotient
\* of the zero-rate branch is rounded to the nearest representable value, as
\* a floating-point division is.
calculateMonthlyPayment(principal, annualRate, termMonths) ==
  IF principal <= 0 THEN Finite(0)
  ELSE IF annualRate = 0 THEN
    IF termMonths = 0 THEN NonFinite
    ELSE Finite((2 * principal + termMonths) \div (2 * termMonths))
  ELSE LET monthlyRate == annualRate \div 12
       IN CHOOSE r \in
            {IF growth = Fine THEN Finite(0)
             ELSE Finite(mulDiv(mulDiv(principal, monthlyRate, growth - Fine), growth, Fine))
               : growth \in {pow(Fine + monthlyRate, termMonths)}} : TRUE

isTaxable(a) == a.taxable
notTaxable(a) == ~a.taxable

Prices(items) == [i \in 1..Len(items) |-> items[i].price]
Amounts(items) == [i \in 1..Len(items) |-> items[i].amount]

\* Step 4 of calculate(): the two fee sums as the code writes them.
taxableFeesOf(fees) == fees.docPrep.amount + fees.ert.amount
nonTaxableFeesOf(fees, isCook) ==
  fees.title.amount + fees.registration.amount
  + (IF isCook THEN fees.cookCounty.amount ELSE 0)

\* calculate(), steps 1 to 11, on a state object st.
\* A variant of sellingPriceOf: the distance between price and discounts.
sellingPriceDistance(vehiclePrice, totalDiscounts) ==
  IF vehiclePrice >= totalDiscounts THEN vehiclePrice - totalDiscounts
  ELSE totalDiscounts - vehiclePrice

\* calculate, step 1: the selling price after discounts.
sellingPriceOf(vehiclePrice, totalDiscounts) ==
  Max(0, vehiclePrice - totalDiscounts)

\* A variant of tradeEquityOf: negative equity is ignored.
tradeEquityFloored(tradeValue, tradeOwed) == Max(0, tradeValue - tradeOwed)

\* calculate, step 6: the equity of the trade-in, negative when more is owed.
tradeEquityOf(tradeValue, tradeOwed) == tradeValue - tradeOwed

\* A variant of taxableAmountOf: the trade-in credit is not floored.
taxableAmountUnfloored(taxableBeforeTrade, tradeValue) ==
  taxableBeforeTrade - tradeValue

\* calculate, step 6: the taxable amount after the trade-in credit.
taxableAmountOf(taxableBeforeTrade, tradeValue) ==
  Max(0, taxableBeforeTrade - tradeValue)

calculateOn(st) ==
  LET totalDiscounts == SumSeq(Amounts(st.discounts))
      sellingPrice == sellingPriceOf(st.vehiclePrice, totalDiscounts)
      taxableAddons == SumSeq(Prices(SelectSeq(st.addons, isTaxable)))
      nonTaxableAddons == SumSeq(Prices(SelectSeq(st.addons, notTaxable)))
      totalAddons == taxableAddons + nonTaxableAddons
      vehicleSubtotal == sellingPrice + totalAddons
      taxableFees == taxableFeesOf(CONFIG.fees)
      nonTaxableFees == nonTaxableFeesOf(CONFIG.fees, st.isCookCounty)
      taxableBeforeTrade == sellingPrice + taxableAddons + taxableFees
      tradeEquity == tradeEquityOf(st.tradeValue, st.tradeOwed)
      taxableAmount == taxableAmountOf(taxableBeforeTrade, st.tradeValue)
      salesTax == mulDiv(taxableAmount, st.taxRate, Scale)
      tradeTaxSavings ==
        mulDiv(Min(st.tradeValue, taxableBeforeTrade), st.taxRate, Scale)
      totalBeforeTrade == vehicleSubtotal + taxableFees + salesTax + nonTaxableFees
      outTheDoor == totalBeforeTrade - tradeEquity
  IN [sellingPrice |-> sellingPrice,
      totalDiscounts |-> totalDiscounts,
      taxableAddons |-> taxableAddons,
      nonTaxableAddons |-> nonTaxableAddons,
      totalAddons |-> totalAddons,
      vehicleSubtotal |-> vehicleSubtotal,
      taxableFees |-> taxableFees,
      nonTaxableFees |-> nonTaxableFees,
      taxableBeforeTrade |-> taxableBeforeTrade,
      tradeValue |-> st.tradeValue,
      tradeOwed |-> st.tradeOwed,
      tradeEquity |-> tradeEquity,
      taxableAmount |-> taxableAmount,
      taxRate |-> st.taxRate,
      salesTax |-> salesTax,
      tradeTaxSavings |-> tradeTaxSavings,
      totalBeforeTrade |-> totalBeforeTrade,
      outTheDoor |-> outTheDoor,
      amountToFinance |-> Max(0, outTheDoor - st.downPayment)]

calculate == calculateOn(state)

\* calculate(), step 12: results.payments[term].
paymentFor(amountToFinance, term) ==
  LET aprInfo == getAprForTerm(term)
      payment == calculateMonthlyPayment(amountToFinance, aprInfo.rate, term).value
      totalPayments == payment * term
  IN [apr |-> aprInfo.rate,
      isSpecial |-> aprInfo.isSpecial,
      payment |-> payment,
      totalPayments |-> totalPayments,
      totalInterest |-> totalPayments - amountToFinance]

payments == [term \in Terms |-> paymentFor(calculate.amountToFinance, term)]

(***************************************************************************)
(* Text entered in a field                                                 *)
(***************************************************************************)
DigitVal(c) ==
  CASE c = "0" -> 0 [] c = "1" -> 1 [] c = "2" -> 2 [] c = "3" -> 3
    [] c = "4" -> 4 [] c = "5" -> 5 [] c = "6" -> 6 [] c = "7" -> 7
    [] c = "8" -> 8 [] c = "9" -> 9

isDigit(c) == c \in Digits
isNumeric(c) == c \in Digits \cup {"."}

\* The longest prefix of s made of digits.
RECURSIVE digitPrefix(_)
digitPrefix(s) ==
  IF s = <<>> \/ Head(s) \notin Digits THEN <<>>
  ELSE <<Head(s)>> \o digitPrefix(Tail(s))

\* The integer a digit string spells (0 for the empty string).
RECURSIVE intOf(_)
intOf(ds) ==
  IF ds = <<>> THEN 0 ELSE 10 * intOf(SubSeq(ds, 1, Len(ds) - 1)) + DigitVal(ds[Len(ds)])

\* The fraction a digit string spells after the point, in 1/Scale
\* (digits past the fourth are dropped).
fracOf(ds) ==
  LET d(i) == IF i <= Len(ds) THEN DigitVal(ds[i]) ELSE 0
  IN d(1) * 1000 + d(2) * 100 + d(3) * 10 + d(4)

\* parseFloat on a string of digits and points; NaN is reported as isNaN.
parseFloatClean(s) ==
  LET ip == digitPrefix(s)
      rest == SubSeq(s, Len(ip) + 1, Len(s))
      fp == IF rest # <<>> /\ Head(rest) = "." THEN digitPrefix(Tail(rest)) ELSE <<>>
  IN IF ip = <<>> /\ fp = <<>> THEN [isNaN |-> TRUE, value |-> 0]
     ELSE [isNaN |-> FALSE, value |-> intOf(ip) * Scale + fracOf(fp)]

\* parseNumber(value): strip all but digits and points, parseFloat, NaN is 0.
parseNumber(value) ==
  IF value = <<>> THEN 0
  ELSE LET cleaned == SelectSeq(value, isNumeric)
           f == parseFloatClean(cleaned)
       IN IF f.isNaN THEN 0 ELSE f.value

\* e.target.value.replace(/\D/g, '').slice(0, 5)
cleanZip(value) == slice(SelectSeq(value, isDigit), 5)

\* Number.prototype.toFixed(2) of a non-negative number, read back as a number.
toFixed2(x) == ((x + 50) \div 100) * 100

\* Math.round on a non-negative number.
round(x) == ((x + Scale \div 2) \div Scale) * Scale

(***************************************************************************)
(* dp-calculator.js: the calculation engine                                *)
(***************************************************************************)
\* The maintenance loop of dpCalculate: whole years, then the pro-rated rest.
RECURSIVE maintenanceUpTo(_, _)
maintenanceUpTo(costs, y) ==
  IF y = 0 THEN 0
  ELSE maintenanceUpTo(costs, y - 1)
       + (IF Min(y, 7) \in DOMAIN costs THEN costs[Min(y, 7)] ELSE 0)

totalMaintenanceOf(costs, term) ==
  LET whole == term \div 12
      next == Min(whole + 1, 7)
  IN maintenanceUpTo(costs, whole)
     + (IF term % 12 > 0
          THEN ((IF next \in DOMAIN costs THEN costs[next] ELSE 0) * (term % 12)) \div 12
          ELSE 0)

\* A variant of dpSplit: the requested down payment is not capped.
dpSplitUncapped(outTheDoor, requested) ==
  [downPayment |-> requested,
   amountFinanced |-> Max(0, outTheDoor - requested),
   cashInvested |-> outTheDoor - requested]

\* Variant of the financing split that caps the down payment at the amount
\* due only when that amount is positive.
dpSplitCappedAboveZero(outTheDoor, requested) ==
  LET downPayment == Min(requested, Max(0, outTheDoor))
  IN [downPayment |-> downPayment,
      amountFinanced |-> Max(0, outTheDoor - downPayment),
      cashInvested |-> outTheDoor - downPayment]

\* The four lines of dpCalculate that derive the financing split.
dpSplit(outTheDoor, requested) ==
  LET downPayment == Min(requested, outTheDoor)
  IN [downPayment |-> downPayment,
      amountFinanced |-> Max(0, outTheDoor - downPayment),
      cashInvested |-> outTheDoor - downPayment]

\* dpCalculate(), reading the state object st (terms are whole years).  The
\* function is written in stages so that each intermediate value (otd, the
\* split, the payment, the future value, the tax) is computed once.
dpResult(st, otd, split, aprInfo, monthly, fv, investmentTax) ==
  LET term == st.selectedTerm
      years == term \div 12
      totalAmountDue == otd.outTheDoor
      downPayment == split.downPayment
      amountFinanced == split.amountFinanced
      cashInvested == split.cashInvested
      apr == aprInfo.rate
      totalPmts == monthly * term
      totalInterest == Max(0, totalPmts - amountFinanced)
      r == st.investmentReturn
      investmentGain == Max(0, fv - cashInvested)
      investmentValueNet == fv - investmentTax
      totalMaintenance == totalMaintenanceOf(st.maintenanceCosts, term)
      residualValue == mulDiv(st.vehiclePrice, st.residualPct, Scale)
      totalCashOut == downPayment + totalPmts + totalMaintenance
      endingAssets == residualValue + investmentValueNet
  IN [totalAmountDue |-> totalAmountDue,
      outTheDoor |-> otd.outTheDoor,
      downPayment |-> downPayment,
      amountFinanced |-> amountFinanced,
      apr |-> apr,
      isSpecialApr |-> aprInfo.isSpecial,
      monthlyPayment |-> monthly,
      totalPayments |-> totalPmts,
      totalInterest |-> totalInterest,
      cashInvested |-> cashInvested,
      investmentGain |-> investmentGain,
      investmentTax |-> investmentTax,
      investmentValueNet |-> investmentValueNet,
      totalMaintenance |-> totalMaintenance,
      residualValue |-> residualValue,
      years |-> years,
      term |-> term,
      totalCashOut |-> totalCashOut,
      endingAssets |-> endingAssets,
      netPosition |-> endingAssets - totalCashOut,
      downPaymentPct |-> IF totalAmountDue > 0 /\ downPayment >= 0
                           THEN mulDiv(downPayment, Scale, totalAmountDue) ELSE 0,
      afterTaxReturn |-> IF st.gainsTaxRate <= Scale
                           THEN mulDiv(r, Scale - st.gainsTaxRate, Scale)
                           ELSE 0 - mulDiv(r, st.gainsTaxRate - Scale, Scale),
      hasPrice |-> st.vehiclePrice > 0]

\* A variant of dpInvest: the whole future value is taxed, not the gain.
dpInvestTaxingValue(st, otd, split, aprInfo, monthly, fv) ==
  CHOOSE res \in
    {dpResult(st, otd, split, aprInfo, monthly, fv, investmentTax)
       : investmentTax \in {mulDiv(fv, st.gainsTaxRate, Scale)}} : TRUE

\* dpCalculate, from the investment's future value on.
dpInvest(st, otd, split, aprInfo, monthly, fv) ==
  CHOOSE res \in
    {dpResult(st, otd, split, aprInfo, monthly, fv, investmentTax)
       : investmentTax \in
           {mulDiv(Max(0, fv - split.cashInvested), st.gainsTaxRate, Scale)}} : TRUE

\* dpCalculate, from the financing split on.
dpFinance(st, otd, split, aprInfo) ==
  CHOOSE res \in
    {dpInvest(st, otd, split, aprInfo, monthly, fv)
       : monthly \in {calculateMonthlyPayment(split.amountFinanced, aprInfo.rate,
                                              st.selectedTerm).value},
         fv \in {IF split.cashInvested > 0
                   THEN mulDiv(split.cashInvested,
                               pow((Scale + st.investmentReturn) * (Fine \div Scale),
                                   st.selectedTerm \div 12),
                               Fine)
                   ELSE 0}} : TRUE

dpCalculateOn(st) ==
  CHOOSE res \in
    {CHOOSE res \in
       {dpFinance(st, otd, split, aprInfo)
          : split \in {dpSplit(otd.outTheDoor, st.downPayment)},
            aprInfo \in {getAprForTermOn(st, st.selectedTerm)}} : TRUE
       : otd \in {calculateOn(st)}} : TRUE

dpCalculate == dpCalculateOn(state)

\* A variant of updateVerdict: the whole ending value of the investment, not
\* its gain, is held against the loan interest.
updateVerdictOnEndingValue(r) ==
  IF r.cashInvested <= 0 \/ r.amountFinanced <= 0 THEN "hidden"
  ELSE IF r.investmentValueNet - r.totalInterest >= 0
         THEN "dp-verdict-invest" ELSE "dp-verdict-paydown"

\* A variant of updateWaterfall: the insight block is always written.
updateWaterfallUnguarded(r) ==
  IF (r.investmentValueNet - r.cashInvested) - r.totalInterest >= 0
    THEN "financing ahead" ELSE "more down saves"

\* updateVerdict(r): the badge is hidden, or carries one of two classes.
updateVerdict(r) ==
  IF r.cashInvested <= 0 \/ r.amountFinanced <= 0 THEN "hidden"
  ELSE LET investmentGainNet == r.investmentValueNet - r.cashInvested
           investNetBeat == investmentGainNet - r.totalInterest
       IN IF investNetBeat >= 0 THEN "dp-verdict-invest" ELSE "dp-verdict-paydown"

\* updateWaterfall(r): the insight block at the end of the narrative, named
\* by the answer it gives ("none" when the block is left out).
updateWaterfall(r) ==
  LET investmentGainNet == r.investmentValueNet - r.cashInvested
      loanInterest == r.totalInterest
      investNetBeat == investmentGainNet - loanInterest
  IN IF r.cashInvested > 0 /\ r.amountFinanced > 0
       THEN IF investNetBeat >= 0 THEN "financing ahead" ELSE "more down saves"
       ELSE "none"

\* dpUpdateResults(): without a price the content is hidden and the
\* waterfall and the badge keep what they showed.
dpUpdateResults(st, u) ==
  CHOOSE shown \in
    {IF ~r.hasPrice THEN [u EXCEPT !.contentShown = FALSE]
     ELSE [u EXCEPT !.contentShown = TRUE,
                    !.insight = updateWaterfall(r),
                    !.verdict = updateVerdict(r)]
       : r \in {dpCalculateOn(st)}} : TRUE

(***************************************************************************)
(* What the user can type or pick                                          *)
(***************************************************************************)
\* Bounds of the model.
MaxItems == 1          \* add-ons, and discounts, that can be listed at once
SliderStops == 2       \* positions the slider is dragged to: 0..SliderStops

PriceTexts ==
  {<<>>, <<"5","0","0","0">>, <<"$","3","0",",","0","0","0">>, <<"-","5","0","0">>}
TradeValueTexts == {<<>>, <<"2","0","0","0">>, <<"1","0","0","0","0">>}
TradeOwedTexts == {<<"0">>, <<"3","0","0","0">>, <<"1","2","0","0","0">>}
DownTexts == {<<>>, <<"1","0","0","0">>, <<"4","0","0","0","0">>}
ItemTexts == {<<>>, <<"1","5","0","0">>}
ZipTexts ==
  {<<>>, <<"6","0","0">>, Z60601, Z60025, Z60004, Z60010, Z99999,
   <<"6","0","0","2","5","-","1","2">>}
\* What is typed and picked on the down-payment page.
DpZipTexts == {<<"6","0","0">>, Z60601}
DpTerms == {36, 60, 84}

\* CONFIG.products, the entries the model offers (taxable: ceramic;
\* nonTaxable: gap), and CONFIG.discounts likewise.
AddonCatalog ==
  {[id |-> "ceramic", name |-> "Ceramic Coating", taxable |-> TRUE],
   [id |-> "gap", name |-> "GAP Insurance", taxable |-> FALSE]}
DiscountCatalog ==
  {[id |-> "manufacturer", name |-> "Manufacturer Rebate"],
   [id |-> "dealer", name |-> "Dealer Discount"]}

\* A variant of Ids: no id counts as used.
IdsNone(items) == {}

\* usedIds: the ids of the entries listed.
Ids(items) == {items[i].id : i \in 1..Len(items)}

\* Array.prototype.splice(index, 1)
splice(items, index) ==
  SubSeq(items, 1, index - 1) \o SubSeq(items, index + 1, Len(items))

(***************************************************************************)
(* calculator.js: handlers of the out-the-door page                        *)
(***************************************************************************)
\* updateTaxRate(): reads TAX_RATES, never taxLookup.
updateTaxRate(st, u) ==
  IF Len(st.zipCode) = 5 THEN
    IF st.zipCode \in DOMAIN TAX_RATES THEN
      LET taxInfo == TAX_RATES[st.zipCode] IN
      [state |-> [st EXCEPT !.taxRate = taxInfo.rate,
                            !.taxLocation = taxInfo.city,
                            !.isCookCounty = (taxInfo.county = "Cook")],
       ui |-> [u EXCEPT !.taxRateShown = TRUE, !.rateValue = taxInfo.rate]]
    ELSE
      [state |-> [st EXCEPT !.taxRate = CONFIG.defaultTaxRate,
                            !.taxLocation = "",
                            !.isCookCounty = FALSE],
       ui |-> [u EXCEPT !.taxRateShown = TRUE, !.rateValue = CONFIG.defaultTaxRate]]
  ELSE [state |-> st, ui |-> [u EXCEPT !.taxRateShown = FALSE]]

\* toggleTradeIn(show)
toggleTradeIn(st, show) ==
  IF show THEN [st EXCEPT !.tradeInActive = TRUE]
  ELSE [st EXCEPT !.tradeInActive = FALSE, !.tradeValue = 0, !.tradeOwed = 0]

OtdVehiclePrice ==
  /\ ui.page = "otd"
  /\ \E text \in PriceTexts : state' = [state EXCEPT !.vehiclePrice = parseNumber(text)]
  /\ UNCHANGED <<config, ui, taxVars, probe>>

OtdZipCode ==
  /\ ui.page = "otd"
  /\ \E text \in ZipTexts :
       \E r \in {updateTaxRate([state EXCEPT !.zipCode = cleanZip(text)], ui)} :
         state' = r.state /\ ui' = r.ui
  /\ UNCHANGED <<config, taxVars, probe>>

OtdTradeValue ==
  /\ ui.page = "otd"
  /\ state.tradeInActive
  /\ \E text \in TradeValueTexts : state' = [state EXCEPT !.tradeValue = parseNumber(text)]
  /\ UNCHANGED <<config, ui, taxVars, probe>>

OtdTradeOwed ==
  /\ ui.page = "otd"
  /\ state.tradeInActive
  /\ \E text \in TradeOwedTexts : state' = [state EXCEPT !.tradeOwed = parseNumber(text)]
  /\ UNCHANGED <<config, ui, taxVars, probe>>

OtdDownPayment ==
  /\ ui.page = "otd"
  /\ \E text \in DownTexts : state' = [state EXCEPT !.downPayment = parseNumber(text)]
  /\ UNCHANGED <<config, ui, taxVars, probe>>

OtdToggleTradeIn ==
  /\ ui.page = "otd"
  /\ state' = toggleTradeIn(state, ~state.tradeInActive)
  /\ UNCHANGED <<config, ui, taxVars, probe>>

\* addonSelect change: the options are the catalog entries not yet listed
\* (populateAddonSelect runs after every change of state.addons).
AddonSelect ==
  /\ ui.page = "otd"
  /\ Len(state.addons) < ui.itemLimit
  /\ \E p \in AddonCatalog :
       /\ p.id \notin Ids(state.addons)
       /\ state' = [state EXCEPT !.addons =
            Append(@, [id |-> p.id, name |-> p.name, price |-> 0, taxable |-> p.taxable])]
  /\ UNCHANGED <<config, ui, taxVars, probe>>

AddonPrice ==
  /\ ui.page = "otd"
  /\ \E index \in 1..Len(state.addons), text \in ItemTexts :
       state' = [state EXCEPT !.addons[index].price = parseNumber(text)]
  /\ UNCHANGED <<config, ui, taxVars, probe>>

AddonRemove ==
  /\ ui.page = "otd"
  /\ \E index \in 1..Len(state.addons) :
       state' = [state EXCEPT !.addons = splice(@, index)]
  /\ UNCHANGED <<config, ui, taxVars, probe>>

DiscountSelect ==
  /\ ui.page = "otd"
  /\ Len(state.discounts) < ui.itemLimit
  /\ \E d \in DiscountCatalog :
       /\ d.id \notin Ids(state.discounts)
       /\ state' = [state EXCEPT !.discounts =
            Append(@, [id |-> d.id, name |-> d.name, amount |-> 0])]
  /\ UNCHANGED <<config, ui, taxVars, probe>>

DiscountAmount ==
  /\ ui.page = "otd"
  /\ \E index \in 1..Len(state.discounts), text \in ItemTexts :
       state' = [state EXCEPT !.discounts[index].amount = parseNumber(text)]
  /\ UNCHANGED <<config, ui, taxVars, probe>>

DiscountRemove ==
  /\ ui.page = "otd"
  /\ \E index \in 1..Len(state.discounts) :
       state' = [state EXCEPT !.discounts = splice(@, index)]
  /\ UNCHANGED <<config, ui, taxVars, probe>>

(***************************************************************************)
(* dp-calculator.js: handlers of the down-payment page.                    *)
(* The slider is an <input type="range">: the browser keeps its value      *)
(* within 0..max, also when max is lowered.                                *)
(***************************************************************************)
\* slider.max = m; slider.value = v, as the range input stores them.
setSlider(u, m, v) == [u EXCEPT !.sliderMax = m, !.sliderValue = Max(0, Min(v, m))]

\* updateSliderMax()
updateSliderMax(st, u) ==
  LET otd == calculateOn(st)
      max == Max(0, otd.outTheDoor)
      held == Min(u.sliderValue, round(max))     \* slider.value once max is set
      clamped == Min(held, max)
  IN [state |-> [st EXCEPT !.downPayment = clamped],
      ui |-> setSlider(u, round(max), round(clamped))]

\* syncSliderFromDollar(dollarValue)
syncSliderFromDollar(st, u, dollarValue) ==
  LET otd == calculateOn(st)
      max == Max(0, otd.outTheDoor)
      clamped == Min(Max(0, dollarValue), max)
  IN [state |-> [st EXCEPT !.downPayment = clamped],
      ui |-> setSlider(u, round(max), round(clamped))]

\* syncSliderFromSlider(sliderValue): the value is taken as it is.
syncSliderFromSlider(st, u, val) ==
  [state |-> [st EXCEPT !.downPayment = val],
   ui |-> [u EXCEPT !.sliderValue = val]]

\* A variant of selectDpTerm: the residual is looked up for the new term even
\* when the user has overridden it.
selectDpTermResettingResidual(st, u, term) ==
  LET st2 == [st EXCEPT !.selectedTerm = term,
                        !.residualPct = CONFIG.downPaymentCalc.residualByTerm[term]]
      u1 == [u EXCEPT !.residualInput = CONFIG.downPaymentCalc.residualByTerm[term]]
      k == findSpecial(st2.specialAprs, term)
      u2 == IF ~u.aprUserEdited
              THEN [u1 EXCEPT !.aprInput =
                      toFixed2(IF k # 0 THEN st2.specialAprs[k].rate
                               ELSE CONFIG.creditTiers[st2.creditTier][term])]
              ELSE u1
  IN updateSliderMax(st2, u2)

\* selectDpTerm(term)
selectDpTerm(st, u, term) ==
  LET st1 == [st EXCEPT !.selectedTerm = term]
      st2 == IF ~u.residualUserEdited
               THEN [st1 EXCEPT !.residualPct = CONFIG.downPaymentCalc.residualByTerm[term]]
               ELSE st1
      u1 == IF ~u.residualUserEdited
              THEN [u EXCEPT !.residualInput = CONFIG.downPaymentCalc.residualByTerm[term]]
              ELSE u
      k == findSpecial(st2.specialAprs, term)
      u2 == IF ~u.aprUserEdited
              THEN [u1 EXCEPT !.aprInput =
                      toFixed2(IF k # 0 THEN st2.specialAprs[k].rate
                               ELSE CONFIG.creditTiers[st2.creditTier][term])]
              ELSE u1
  IN updateSliderMax(st2, u2)

DpVehiclePrice ==
  /\ ui.page = "dp"
  /\ \E text \in PriceTexts :
       \E r \in {updateSliderMax([state EXCEPT !.vehiclePrice = parseNumber(text)], ui)} :
         state' = r.state /\ ui' = dpUpdateResults(r.state, r.ui)
  /\ UNCHANGED <<config, taxVars, probe>>

DpZipCode ==
  /\ ui.page = "dp"
  /\ \E text \in DpZipTexts :
       \E t \in {updateTaxRate([state EXCEPT !.zipCode = cleanZip(text)], ui)} :
       \E r \in {updateSliderMax(t.state, t.ui)} :
         state' = r.state /\ ui' = dpUpdateResults(r.state, r.ui)
  /\ UNCHANGED <<config, taxVars, probe>>

DpTradeValue ==
  /\ ui.page = "dp"
  /\ state.tradeInActive
  /\ \E text \in TradeValueTexts :
       \E r \in {updateSliderMax([state EXCEPT !.tradeValue = parseNumber(text)], ui)} :
         state' = r.state /\ ui' = dpUpdateResults(r.state, r.ui)
  /\ UNCHANGED <<config, taxVars, probe>>

DpTradeOwed ==
  /\ ui.page = "dp"
  /\ state.tradeInActive
  /\ \E text \in TradeOwedTexts :
       \E r \in {updateSliderMax([state EXCEPT !.tradeOwed = parseNumber(text)], ui)} :
         state' = r.state /\ ui' = dpUpdateResults(r.state, r.ui)
  /\ UNCHANGED <<config, taxVars, probe>>

DpToggleTradeIn ==
  /\ ui.page = "dp"
  /\ \E r \in {updateSliderMax(toggleTradeIn(state, ~state.tradeInActive), ui)} :
       state' = r.state /\ ui' = dpUpdateResults(r.state, r.ui)
  /\ UNCHANGED <<config, taxVars, probe>>

DpSelectTerm ==
  /\ ui.page = "dp"
  /\ \E term \in DpTerms :
       \E r \in {selectDpTerm(state, ui, term)} :
         state' = r.state /\ ui' = dpUpdateResults(r.state, r.ui)
  /\ UNCHANGED <<config, taxVars, probe>>

DpDownPaymentAmt ==
  /\ ui.page = "dp"
  /\ \E text \in DownTexts :
       \E r \in {syncSliderFromDollar(state, ui, parseNumber(text))} :
         state' = r.state /\ ui' = dpUpdateResults(r.state, r.ui)
  /\ UNCHANGED <<config, taxVars, probe>>

\* The slider is dragged to one of its stops between 0 and slider.max.
DpSlider ==
  /\ ui.page = "dp"
  /\ \E k \in 0..SliderStops :
       \E r \in {syncSliderFromSlider(state, ui,
                   Min(round((ui.sliderMax * k) \div SliderStops), ui.sliderMax))} :
         state' = r.state /\ ui' = dpUpdateResults(r.state, r.ui)
  /\ UNCHANGED <<config, taxVars, probe>>

(***************************************************************************)
(* Special APRs: the handlers of both pages, the credit tier, and direct   *)
(* calls of calculateMonthlyPayment.                                       *)
(***************************************************************************)
MaxSpecials == 2       \* special APRs that can be listed on the OTD page
SpecialTerms == {36, 60}
TierChoices == {"excellent", "poor"}
\* Rates typed: nothing, 2.9, and a positive rate below the grid of the
\* monthly rate (see calculateMonthlyPayment).
RateTexts == {<<>>, <<"2",".","9">>, <<"0",".","0","0","0","1">>}

termsOf(aprs) == {aprs[i].term : i \in 1..Len(aprs)}

\* state.specialAprs.filter(a => a.term !== term)
\* A variant of withoutTerm: nothing is filtered out.
withoutTermKeepAll(aprs, term) == aprs

withoutTerm(aprs, term) ==
  LET keep(a) == a.term # term IN SelectSeq(aprs, keep)

\* specialAprConfirmBtn click: the select offers the terms not yet used.
SpecialAprConfirm ==
  /\ ui.page = "otd"
  /\ Len(state.specialAprs) < MaxSpecials
  /\ \E term \in SpecialTerms \ termsOf(state.specialAprs), text \in RateTexts :
       /\ parseNumber(text) > 0
       /\ state' = [state EXCEPT !.specialAprs =
                      Append(@, [term |-> term, rate |-> parseNumber(text)])]
  /\ UNCHANGED <<config, ui, taxVars, probe>>

\* renderSpecialAprList: rate input of the row of one term.
SpecialAprRate ==
  /\ ui.page = "otd"
  /\ \E term \in termsOf(state.specialAprs), text \in RateTexts :
       state' = [state EXCEPT
                   !.specialAprs[findSpecial(state.specialAprs, term)].rate =
                     parseNumber(text)]
  /\ UNCHANGED <<config, ui, taxVars, probe>>

\* renderSpecialAprList: remove button of the row of one term.
SpecialAprRemove ==
  /\ ui.page = "otd"
  /\ \E term \in termsOf(state.specialAprs) :
       state' = [state EXCEPT !.specialAprs = withoutTerm(@, term)]
  /\ UNCHANGED <<config, ui, taxVars, probe>>

\* Credit tier radio, OTD page.
OtdCreditTier ==
  /\ ui.page = "otd"
  /\ \E tier \in TierChoices : state' = [state EXCEPT !.creditTier = tier]
  /\ UNCHANGED <<config, ui, taxVars, probe>>

\* The rate getAprForTerm finds in a state object, as the APR field shows it.
shownApr(st, term) ==
  LET k == findSpecial(st.specialAprs, term)
  IN toFixed2(IF k # 0 THEN st.specialAprs[k].rate
              ELSE CONFIG.creditTiers[st.creditTier][term])

\* Credit tier radio, down-payment page.
DpCreditTier ==
  /\ ui.page = "dp"
  /\ \E tier \in TierChoices :
       \E st \in {[state EXCEPT !.creditTier = tier]} :
         /\ state' = st
         /\ ui' = dpUpdateResults(st,
                    IF ~ui.aprUserEdited
                      THEN [ui EXCEPT !.aprInput = shownApr(st, st.selectedTerm)]
                      ELSE ui)
  /\ UNCHANGED <<config, taxVars, probe>>

\* dpAprInput input handler.
DpAprInput ==
  /\ ui.page = "dp"
  /\ \E text \in RateTexts :
       \E rate \in {parseNumber(text)} :
         \E st \in {[state EXCEPT !.specialAprs =
                        IF rate > 0
                          THEN Append(withoutTerm(@, state.selectedTerm),
                                      [term |-> state.selectedTerm, rate |-> rate])
                          ELSE withoutTerm(@, state.selectedTerm)]} :
           /\ state' = st
           /\ ui' = dpUpdateResults(st,
                      [ui EXCEPT !.aprUserEdited = TRUE, !.aprBlank = (text = <<>>),
                                 !.aprInput = rate])
  /\ UNCHANGED <<config, taxVars, probe>>

\* dpAprInput blur handler: acts only on an empty field.
DpAprBlur ==
  /\ ui.page = "dp"
  /\ ui.aprBlank
  /\ \E st \in {[state EXCEPT !.specialAprs = withoutTerm(@, state.selectedTerm)]} :
       /\ state' = st
       /\ ui' = dpUpdateResults(st,
                  [ui EXCEPT !.aprUserEdited = FALSE, !.aprBlank = FALSE,
                             !.aprInput = shownApr(st, st.selectedTerm)])
  /\ UNCHANGED <<config, taxVars, probe>>

\* Arguments of a direct call of calculateMonthlyPayment.
ProbePrincipals ==
  {0 - Dollars(100), 0, Dollars(1000), Dollars(5000), Dollars(8400), Dollars(30000)}
ProbeRates == {0, 1, Pct(290), Pct(649), Pct(1749)}
ProbeTerms == {0, 1, 24, 60, 84}

CallMonthlyPayment ==
  /\ \E principal \in ProbePrincipals, annualRate \in ProbeRates, termMonths \in ProbeTerms :
       probe' = [called |-> TRUE, principal |-> principal, annualRate |-> annualRate,
                 termMonths |-> termMonths,
                 result |-> calculateMonthlyPayment(principal, annualRate, termMonths)]
  /\ UNCHANGED <<config, state, ui, taxVars>>

\* A variant of stateAfterDpCalculate: the maintenance loop uses up the
\* first year's cost as it adds it.
stateAfterDpCalculateConsuming(st) ==
  [st EXCEPT !.maintenanceCosts[1] = 0]

\* The state object as calculate() leaves it: the function assigns to its
\* local results object only.
stateAfterCalculate(st) == st

\* The state object as dpCalculate() leaves it: the function declares
\* constants and one local counter, and assigns to nothing else.
stateAfterDpCalculate(st) == stateAfterCalculate(st)

\* A record of one direct call: the function, the state it was given, the
\* state it left, its result, and whether the call before it was of the
\* same function on the same state.
callRecord(fn, given, left, result) ==
  [called |-> TRUE, fn |-> fn, given |-> given, left |-> left, result |-> result,
   again |-> probe.called /\ probe.fn = fn /\ probe.left = given,
   same |-> IF probe.called /\ probe.fn = fn /\ probe.left = given
              THEN probe.result = result ELSE TRUE]

\* calculate() called on its own.
CallCalculate ==
  /\ \E left \in {stateAfterCalculate(state)} :
       /\ probe' = callRecord("calculate", state, left,
                              [otd |-> calculateOn(state), payments |-> payments])
       /\ state' = left
  /\ UNCHANGED <<config, ui, taxVars>>

\* dpCalculate() called on its own.
CallDpCalculate ==
  /\ ui.page = "dp"
  /\ \E left \in {stateAfterDpCalculate(state)} :
       /\ probe' = callRecord("dpCalculate", state, left, dpCalculateOn(state))
       /\ state' = left
  /\ UNCHANGED <<config, ui, taxVars>>

(***************************************************************************)
(* Down-payment page: investment return, gains tax and residual fields     *)
(***************************************************************************)
\* What is typed into the three percentage fields.
ReturnTexts == {<<>>, <<"7">>, <<"1","2">>}
GainsTexts == {<<>>, <<"1","5">>, <<"1","5","0">>}
ResidualTexts == {<<>>, <<"5","5">>, <<"1","5","0">>}

\* A percentage field read as a decimal: parseNumber(value) / 100.
percentOf(text) == parseNumber(text) \div 100

\* dpInvestmentReturn input handler.
DpInvestmentReturn ==
  /\ ui.page = "dp"
  /\ \E text \in ReturnTexts :
       \E st \in {[state EXCEPT !.investmentReturn = percentOf(text)]} :
         state' = st /\ ui' = dpUpdateResults(st, ui)
  /\ UNCHANGED <<config, taxVars, probe>>

\* dpGainsTaxRate input handler.
DpGainsTaxRate ==
  /\ ui.page = "dp"
  /\ \E text \in GainsTexts :
       \E st \in {[state EXCEPT !.gainsTaxRate = percentOf(text)]} :
         state' = st /\ ui' = dpUpdateResults(st, ui)
  /\ UNCHANGED <<config, taxVars, probe>>

\* dpResidualPct input handler.
DpResidualInput ==
  /\ ui.page = "dp"
  /\ \E text \in ResidualTexts :
       \E st \in {[state EXCEPT !.residualPct = percentOf(text)]} :
         /\ state' = st
         /\ ui' = dpUpdateResults(st,
                    [ui EXCEPT !.residualUserEdited = TRUE,
                               !.residualBlank = (text = <<>>),
                               !.residualInput = percentOf(text)])
  /\ UNCHANGED <<config, taxVars, probe>>

\* dpResidualPct blur handler: acts only on an empty field.
DpResidualBlur ==
  /\ ui.page = "dp"
  /\ ui.residualBlank
  /\ \E st \in {[state EXCEPT !.residualPct =
                   CONFIG.downPaymentCalc.residualByTerm[state.selectedTerm]]} :
       /\ state' = st
       /\ ui' = dpUpdateResults(st,
                  [ui EXCEPT !.residualUserEdited = FALSE,
                             !.residualBlank = FALSE,
                             !.residualInput =
                               CONFIG.downPaymentCalc.residualByTerm[state.selectedTerm]])
  /\ UNCHANGED <<config, taxVars, probe>>

(***************************************************************************)
(* Initial states and specifications                                       *)
(***************************************************************************)
InitialUi(cfg) ==
  [page |-> "otd",               \* which page is open: "otd" or "dp"
   itemLimit |-> MaxItems,       \* add-ons, and discounts, listed at once here
   taxRateShown |-> FALSE,
   rateValue |-> cfg.defaultTaxRate,
   sliderMax |-> Dollars(100),    \* the default max of a range input
   sliderValue |-> 0,
   residualUserEdited |-> FALSE,
   residualInput |-> cfg.downPaymentCalc.residualByTerm[60],
   aprUserEdited |-> FALSE,
   aprBlank |-> FALSE,           \* the APR field holds the empty string
   residualBlank |-> FALSE,      \* the residual field holds the empty string
   contentShown |-> FALSE,       \* dpResultsContent is displayed
   verdict |-> "hidden",         \* the dpVerdict badge
   insight |-> "none",           \* the insight block of dpWaterfall
   aprInput |-> cfg.creditTiers["excellent"][60]]

CalcInit ==
  /\ state = InitialState(CONFIG)
  /\ ui = InitialUi(CONFIG)

TaxInit ==
  /\ probe = [called |-> FALSE, principal |-> 0, annualRate |-> 0, termMonths |-> 0,
              result |-> Finite(0)]
  /\ data = Null
  /\ loaded = FALSE
  /\ loadPc = "idle"
  /\ lookup = [called |-> FALSE, zip |-> <<>>, during |-> "idle",
               failed |-> FALSE, result |-> DefaultResult]

\* The tax lookup alone: the page of config.js, nothing typed.
TaxOnlyInit == TaxInit /\ config = "config.js" /\ CalcInit

TaxNext ==
  \/ LoadStart
  \/ FetchResolve
  \/ FetchReject
  \/ JsonResolve
  \/ JsonReject
  \/ GetTaxRate

TaxSpec == TaxOnlyInit /\ [][TaxNext]_vars


\* The out-the-door page, with either configuration file.
OtdInit == TaxInit /\ config \in Configs /\ CalcInit

OtdNext ==
  \/ OtdVehiclePrice
  \/ OtdZipCode
  \/ OtdTradeValue
  \/ OtdTradeOwed
  \/ OtdDownPayment
  \/ OtdToggleTradeIn
  \/ AddonSelect
  \/ AddonPrice
  \/ AddonRemove
  \/ DiscountSelect
  \/ DiscountAmount
  \/ DiscountRemove

OtdSpec == OtdInit /\ [][OtdNext]_vars

\* The down-payment page (config.js only: it needs CONFIG.downPaymentCalc).
DpInit ==
  /\ TaxInit
  /\ config = "config.js"
  /\ state = InitialState(CONFIG)
  /\ ui = [InitialUi(CONFIG) EXCEPT !.page = "dp"]

DpNext ==
  \/ DpVehiclePrice
  \/ DpZipCode
  \/ DpTradeValue
  \/ DpTradeOwed
  \/ DpToggleTradeIn
  \/ DpSelectTerm
  \/ DpDownPaymentAmt
  \/ DpSlider

DpSpec == DpInit /\ [][DpNext]_vars

\* The ZIP field of the out-the-door page and the tax lookup, side by side.
ZipNext ==
  \/ LoadStart
  \/ FetchResolve
  \/ FetchReject
  \/ JsonResolve
  \/ JsonReject
  \/ GetTaxRate
  \/ OtdZipCode

ZipSpec == TaxOnlyInit /\ [][ZipNext]_vars

\* Special APRs on either page (config.js), with a price entered.
AprInit ==
  /\ TaxInit
  /\ config = "config.js"
  /\ state = InitialState(CONFIG)
  /\ \E page \in {"otd", "dp"} : ui = [InitialUi(CONFIG) EXCEPT !.page = page]

AprNext ==
  \/ OtdVehiclePrice
  \/ DpVehiclePrice
  \/ SpecialAprConfirm
  \/ SpecialAprRate
  \/ SpecialAprRemove
  \/ OtdCreditTier
  \/ DpCreditTier
  \/ DpSelectTerm
  \/ DpAprInput
  \/ DpAprBlur
  \/ DpDownPaymentAmt

AprSpec == AprInit /\ [][AprNext]_vars

\* calculateMonthlyPayment called on its own.
PayNext ==
  \/ CallMonthlyPayment

PaySpec == TaxOnlyInit /\ [][PayNext]_vars

\* calculate and dpCalculate called on their own between events of the
\* down-payment page.
PureNext ==
  \/ DpVehiclePrice
  \/ DpDownPaymentAmt
  \/ CallCalculate
  \/ CallDpCalculate

PureSpec == DpInit /\ [][PureNext]_vars

\* The investment and residual fields of the down-payment page.
InvestNext ==
  \/ DpVehiclePrice
  \/ DpDownPaymentAmt
  \/ DpSelectTerm
  \/ DpInvestmentReturn
  \/ DpGainsTaxRate
  \/ DpResidualInput
  \/ DpResidualBlur

InvestSpec == DpInit /\ [][InvestNext]_vars

\* The add-on and discount lists of the out-the-door page, with room for one
\* entry more than elsewhere.
ItemInit ==
  /\ TaxInit
  /\ config = "config.js"
  /\ state = InitialState(CONFIG)
  /\ ui = [InitialUi(CONFIG) EXCEPT !.itemLimit = MaxItems + 1]

ItemNext ==
  \/ AddonSelect
  \/ AddonPrice
  \/ AddonRemove
  \/ DiscountSelect
  \/ DiscountAmount
  \/ DiscountRemove

ItemSpec == ItemInit /\ [][ItemNext]_vars

Spec == TaxSpec

(***************************************************************************)
(* Properties of the tax lookup (checked under TaxSpec unless noted).      *)
(* lookup holds the last getTaxRate call: its ZIP, where load() stood when *)
(* it was made, and what it returned.  Once load() is done the table never *)
(* changes, so for a call made then, data is the table the call read.      *)
(***************************************************************************)
normalized(zipCode) == slice(trim(zipCode), 5)

callReturned == lookup.called /\ ~lookup.result.threw
callOnTable == lookup.called /\ lookup.during = "done" /\ ~data.isNull

\* The three lookups of getTaxRate, each taken on its own.
inChicagoList(d, zip) ==
  HasField(d, "chicagoZips") /\ d.chicagoZips.isArray /\ zip \in d.chicagoZips.items
inZipMap(d, zip) == HasField(d, "zipToCounty") /\ zip \in DOMAIN d.zipToCounty
inPrefixTable(zip) == getCountyByPrefix(substring(zip, 3)) # "null"
hasRate(d, c) ==
  HasField(d, "countyRates") /\ c \in DOMAIN d.countyRates /\ d.countyRates[c] # 0
defaultRateOf(d) == IF hasRate(d, "DEFAULT") THEN d.countyRates["DEFAULT"] ELSE StateRate
chicagoRateOf(d) ==
  IF hasRate(d, "COOK_CHICAGO") THEN d.countyRates["COOK_CHICAGO"] ELSE ChicagoRate

\* C1: for every ZIP string and in every state of the tax table (not yet
\* loaded, loaded, load failed) getTaxRate returns without throwing and the
\* rate of its result is a number in [0,1].
C1_GetTaxRateTotal ==
  lookup.called => (~lookup.result.threw /\ lookup.result.rate \in 0..Scale)

\* C1, the case that breaks it: a call on a successfully loaded document
\* that has no county->rate map.
C1_CallOnDocWithoutRates ==
  callOnTable /\ ~lookup.failed /\ ~HasField(data, "countyRates")
  /\ lookup.zip = Z99999

\* C2: after a failed load every getTaxRate call, for every ZIP, returns the
\* rule-4 result: the statewide default rate, county null, isEstimate true.
C2_FailedLoadGivesRuleFour ==
  (lookup.called /\ lookup.failed) =>
    /\ ~lookup.result.threw
    /\ lookup.result.rate = StateRate
    /\ lookup.result.county = "null"
    /\ lookup.result.isEstimate

\* C2, the case that breaks it: a ZIP whose prefix the prefix table maps to
\* DEFAULT, looked up after a failed load.
C2_PrefixZipAfterFailedLoad ==
  lookup.called /\ lookup.failed /\ lookup.zip = Z62301

ChicagoRange ==
  {<<"6","0",c>> : c \in {"0", "1", "2", "3", "4", "5", "6", "7", "8"}}

C7_ChicagoRangeIsCook ==
  LET zip == normalized(lookup.zip) IN
  (/\ callOnTable /\ WellTyped(data) /\ hasRate(data, "COOK")
   /\ Len(zip) = 5 /\ substring(zip, 3) \in ChicagoRange
   /\ ~inChicagoList(data, zip) /\ ~inZipMap(data, zip))
  => /\ ~lookup.result.threw
     /\ lookup.result.rate = data.countyRates["COOK"]
     /\ ~lookup.result.isEstimate

\* C7, the case that breaks it: a 606xx ZIP outside the Chicago list.
C7_Zip606LookedUp ==
  callOnTable /\ data = DocFull /\ lookup.zip = Z60699

\* C8: at every point before load() has completed, the fetch in flight
\* included, a getTaxRate call can be made and returns at once the statewide
\* default rate with county null and isEstimate true, for every ZIP.
C8_DefaultBeforeLoaded ==
  /\ loadPc # "done" => ENABLED GetTaxRate
  /\ (lookup.called /\ lookup.during # "done") => lookup.result = DefaultResult

\* C8, its case: a Chicago ZIP looked up while the fetch is in flight.
C8_LookupDuringFetch ==
  /\ lookup.called /\ lookup.during = "fetching" /\ lookup.zip = Z60601
  /\ lookup.result.isEstimate /\ lookup.result.rate = StateRate

\* The document with every missing field filled in by an empty structure.
filled(d) ==
  [isNull |-> FALSE,
   countyRates |-> IF HasField(d, "countyRates") THEN d.countyRates
                   ELSE [c \in {} |-> 0],
   chicagoZips |-> IF HasField(d, "chicagoZips") /\ d.chicagoZips.isArray
                     THEN d.chicagoZips ELSE [isArray |-> TRUE, items |-> {}],
   zipToCounty |-> IF HasField(d, "zipToCounty") THEN d.zipToCounty
                   ELSE [z \in {} |-> "null"]]

\* C9: when the loaded document lacks a field, or a field is malformed,
\* getTaxRate answers as if the field were an empty structure: it does not
\* throw and returns what it returns on the filled-in document.
C9_MissingFieldsReadAsEmpty ==
  (callOnTable /\ ~lookup.failed /\ ~WellTyped(data)) =>
    /\ ~lookup.result.threw
    /\ lookup.result = resolve(filled(data), lookup.zip)

\* C9, the case that breaks it: the empty document {} was loaded and a ZIP
\* with a known prefix looked up.
C9_CallOnEmptyDocument ==
  callOnTable /\ data = DocEmpty /\ lookup.zip = Z60025

(***************************************************************************)
(* Properties of the calculators.                                          *)
(***************************************************************************)
\* C3 (under ZipSpec): once the table is loaded, entering a 5-digit ZIP
\* leaves in state the rate getTaxRate resolves for it, and calculate()
\* counts the Cook County fee exactly when the ZIP resolves to Cook County.
C3_ZipEntryUsesResolver ==
  [][(/\ loadPc = "done"
      /\ state'.zipCode # state.zipCode
      /\ Len(state'.zipCode) = 5
      /\ ~getTaxRate(state'.zipCode).threw)
     => /\ state'.taxRate = getTaxRate(state'.zipCode).rate
        /\ calculateOn(state').nonTaxableFees =
             nonTaxableFeesOf(CONFIG.fees, getTaxRate(state'.zipCode).county = "COOK")]_vars

\* C3, the case that breaks it: a Chicago ZIP typed once the full table is
\* loaded.
C3_ChicagoZipTyped ==
  loadPc = "done" /\ data = DocFull /\ state.zipCode = Z60601

\* The configured fees, and the sum of those with a given taxable flag; the
\* county fee counts only when it applies.
FeeNames == {"docPrep", "ert", "title", "registration", "cookCounty"}

RECURSIVE feeSum(_, _, _, _)
feeSum(fees, names, flag, isCook) ==
  IF names = {} THEN 0
  ELSE LET n == CHOOSE x \in names : TRUE
           counts == fees[n].taxable = flag /\ (n = "cookCounty" => isCook)
       IN (IF counts THEN fees[n].amount ELSE 0)
          + feeSum(fees, names \ {n}, flag, isCook)

\* C4 (under OtdSpec): in calculate(), taxableFees is the sum of the fees
\* flagged taxable and nonTaxableFees the sum of those flagged not taxable.
C4_FeesFollowTaxableFlag ==
  /\ calculate.taxableFees = feeSum(CONFIG.fees, FeeNames, TRUE, state.isCookCounty)
  /\ calculate.nonTaxableFees = feeSum(CONFIG.fees, FeeNames, FALSE, state.isCookCounty)

\* C4, the case that breaks it: config.js is the configuration and a price
\* has been entered.
C4_PricedWithConfigJs ==
  config = "config.js" /\ state.vehiclePrice = Dollars(30000)

\* Every amount the user entered is non-negative.
nonNegativeInputs ==
  /\ state.vehiclePrice >= 0 /\ state.tradeValue >= 0 /\ state.tradeOwed >= 0
  /\ state.downPayment >= 0
  /\ \A i \in 1..Len(state.addons) : state.addons[i].price >= 0
  /\ \A i \in 1..Len(state.discounts) : state.discounts[i].amount >= 0

\* C10 (under DpSpec): with non-negative inputs, outTheDoor of calculate()
\* and downPayment, amountFinanced and totalCashOut of dpCalculate() are
\* non-negative.
C10_CurrencyOutputsNonNegative ==
  nonNegativeInputs =>
    /\ calculate.outTheDoor >= 0
    /\ dpCalculate.downPayment >= 0
    /\ dpCalculate.amountFinanced >= 0
    /\ dpCalculate.totalCashOut >= 0

\* C10, the case that breaks it: a trade-in worth more than the vehicle and
\* its fees, with nothing owed on it.
C10_TradeExceedsPrice ==
  /\ nonNegativeInputs
  /\ state.tradeInActive /\ state.tradeValue = Dollars(10000) /\ state.tradeOwed = 0
  /\ state.vehiclePrice = Dollars(5000)


(***************************************************************************)
(* Properties of the payment engine.                                       *)
(***************************************************************************)
\* C11 (under AprSpec): for every term of the payment table of calculate(),
\* and in the result of dpCalculate(), total interest is payment x n minus
\* the principal, floored at 0: it is never negative, also when the payment
\* was replaced by 0 by the non-finite guard.
C11_TotalInterestFloored ==
  /\ \A term \in Terms :
       payments[term].totalInterest =
         Max(0, payments[term].payment * term - calculate.amountToFinance)
  /\ dpCalculate.totalInterest =
       Max(0, dpCalculate.monthlyPayment * dpCalculate.term - dpCalculate.amountFinanced)

\* C11, the case that breaks it: an amount is financed and the special APR
\* of the 60-month term is the rate for which the guard returns 0.
C11_GuardedPaymentInTable ==
  /\ calculate.amountToFinance > 0
  /\ payments[60].isSpecial /\ payments[60].apr = 1
  /\ payments[60].payment = 0

\* C12 (under PaySpec): for every principal, annual rate and term,
\* calculateMonthlyPayment returns a finite number; where its formula is not
\* finite, in the annuity branch or in the zero-rate branch, it returns 0.
C12_PaymentAlwaysFinite ==
  probe.called => probe.result.finite

\* C12, the case that breaks it: the zero-rate branch with a term of 0.
C12_ZeroRateZeroTerm ==
  /\ probe.called /\ probe.principal = Dollars(1000)
  /\ probe.annualRate = 0 /\ probe.termMonths = 0

\* The special-APR entries of one term.
entriesFor(aprs, term) ==
  LET match(a) == a.term = term IN SelectSeq(aprs, match)

\* C13 (under AprSpec): for every term, getAprForTerm returns the rate of
\* the special-APR entry of that term with isSpecial true whenever there is
\* one, whatever the credit tier; otherwise the selected tier's table rate
\* with isSpecial false.  A step that leaves the tier and the entries of a
\* term alone leaves the APR of that term alone.
C13_SpecialAprWinsForItsTerm ==
  /\ [](\A term \in Terms :
          LET own == entriesFor(state.specialAprs, term)
          IN getAprForTerm(term) =
               IF own # <<>> THEN [rate |-> own[1].rate, isSpecial |-> TRUE]
               ELSE [rate |-> CONFIG.creditTiers[state.creditTier][term],
                     isSpecial |-> FALSE])
  /\ [][\A term \in Terms :
          (/\ state'.creditTier = state.creditTier
           /\ entriesFor(state'.specialAprs, term) = entriesFor(state.specialAprs, term))
          => getAprForTerm(term)' = getAprForTerm(term)]_vars

\* C13, its case: a special APR for 36 months under the poor tier, with the
\* 60-month term left to the tier table.
C13_OverrideBesideTable ==
  /\ state.creditTier = "poor"
  /\ getAprForTerm(36) = [rate |-> Pct(290), isSpecial |-> TRUE]
  /\ getAprForTerm(60) = [rate |-> Pct(1649), isSpecial |-> FALSE]

\* C14 (under AprSpec): after any sequence of special-APR operations on
\* either page, state.specialAprs holds at most one entry per term.
C14_OneSpecialAprPerTerm ==
  \A i, j \in 1..Len(state.specialAprs) :
    state.specialAprs[i].term = state.specialAprs[j].term => i = j

\* C14, its case: on the DP page the APR field was edited for two terms, the
\* selected term's entry being the one pushed last.
C14_TwoTermsEnteredOnDp ==
  /\ ui.page = "dp" /\ ui.aprUserEdited
  /\ Len(state.specialAprs) = 2
  /\ state.specialAprs[1].term = 36
  /\ state.specialAprs[2].term = 60 /\ state.selectedTerm = 60
  /\ state.specialAprs[2].rate = 1

\* C15 (under OtdSpec): taxableAmount is max(0, taxableBeforeTrade -
\* tradeValue); a trade value at or above taxableBeforeTrade leaves no
\* taxable amount and no sales tax; neither quantity is ever negative.
C15_TradeCreditFlooredAtZero ==
  LET r == calculate
  IN /\ r.taxableAmount = Max(0, r.taxableBeforeTrade - state.tradeValue)
     /\ state.tradeValue >= r.taxableBeforeTrade
          => r.taxableAmount = 0 /\ r.salesTax = 0
     /\ r.taxableAmount >= 0 /\ r.salesTax >= 0

\* C15, its case: a trade-in worth more than the taxable base, in a taxed ZIP.
C15_TradeAboveTaxableBase ==
  /\ state.vehiclePrice = Dollars(5000)
  /\ state.tradeValue = Dollars(10000)
  /\ state.tradeValue > calculate.taxableBeforeTrade
  /\ state.taxRate > 0

\* Amounts by which a price is raised, from one cent to past every floor.
Raises == {1, Dollars(1), Dollars(1500), Dollars(25000)}

\* C16 (under OtdSpec): with every other input fixed, raising vehiclePrice,
\* or the price of a taxable add-on, never lowers outTheDoor, also where the
\* selling-price floor or the taxable-amount floor is in effect.
C16_OutTheDoorMonotone ==
  \A d \in Raises :
    /\ calculateOn([state EXCEPT !.vehiclePrice = @ + d]).outTheDoor
         >= calculate.outTheDoor
    /\ \A i \in 1..Len(state.addons) :
         state.addons[i].taxable =>
           calculateOn([state EXCEPT !.addons[i].price = @ + d]).outTheDoor
             >= calculate.outTheDoor

\* C16, its case: the price is below the discounts and the trade-in above
\* the taxable base, so a small raise is absorbed by the floors and a large
\* one crosses them; a taxable add-on is listed.
C16_RaiseAcrossFloors ==
  /\ state.vehiclePrice < SumSeq(Amounts(state.discounts))
  /\ state.tradeValue > calculate.taxableBeforeTrade
  /\ state.taxRate > 0
  /\ \E i \in 1..Len(state.addons) : state.addons[i].taxable
  /\ calculateOn([state EXCEPT !.vehiclePrice = @ + 1]).outTheDoor
       = calculate.outTheDoor
  /\ calculateOn([state EXCEPT !.vehiclePrice = @ + Dollars(25000)]).outTheDoor
       > calculate.outTheDoor + Dollars(23000)

\* The result for the same inputs with a trade-in that is owed exactly its
\* value, the baseline against which negative equity is measured.
evenTrade == calculateOn([state EXCEPT !.tradeOwed = state.tradeValue])

\* C17, as stated (under OtdSpec): outTheDoor = totalBeforeTrade -
\* tradeEquity with tradeEquity = tradeValue - tradeOwed, and negative
\* equity raises both outTheDoor and amountToFinance by exactly
\* tradeOwed - tradeValue.
C17_NegativeEquityRaisesBoth ==
  LET r == calculate
  IN /\ r.tradeEquity = state.tradeValue - state.tradeOwed
     /\ r.outTheDoor = r.totalBeforeTrade - r.tradeEquity
     /\ state.tradeOwed > state.tradeValue =>
          /\ r.outTheDoor - evenTrade.outTheDoor = state.tradeOwed - state.tradeValue
          /\ r.amountToFinance - evenTrade.amountToFinance
               = state.tradeOwed - state.tradeValue

\* C17, amended (under OtdSpec): outTheDoor = totalBeforeTrade - tradeEquity
\* with tradeEquity = tradeValue - tradeOwed, and negative equity raises
\* outTheDoor by exactly tradeOwed - tradeValue.  amountToFinance rises by
\* the same amount when the down payment does not exceed totalBeforeTrade;
\* with a larger down payment it is max(0, outTheDoor - downPayment) and
\* rises by less.
C17_NegativeEquityRaisesOutTheDoor ==
  LET r == calculate
      rise == r.amountToFinance - evenTrade.amountToFinance
  IN /\ r.tradeEquity = state.tradeValue - state.tradeOwed
     /\ r.outTheDoor = r.totalBeforeTrade - r.tradeEquity
     /\ state.tradeOwed > state.tradeValue =>
          /\ r.outTheDoor - evenTrade.outTheDoor = state.tradeOwed - state.tradeValue
          /\ evenTrade.outTheDoor = r.totalBeforeTrade
          /\ r.amountToFinance = Max(0, r.outTheDoor - state.downPayment)
          /\ IF state.downPayment <= r.totalBeforeTrade
               THEN rise = state.tradeOwed - state.tradeValue
               ELSE rise >= 0 /\ rise < state.tradeOwed - state.tradeValue

\* C17, its case: more is owed on the trade-in than it is worth, once with
\* a down payment above the total before the trade.
C17_NegativeEquityUnderLargeDown ==
  /\ state.tradeValue = Dollars(10000) /\ state.tradeOwed = Dollars(12000)
  /\ state.downPayment > calculate.totalBeforeTrade
  /\ calculate.outTheDoor = calculate.totalBeforeTrade + Dollars(2000)

\* C18 (under DpSpec): in every result of dpCalculate, downPayment is the
\* smaller of the requested down payment and calculate's outTheDoor,
\* amountFinanced is max(0, outTheDoor - downPayment) and cashInvested is
\* outTheDoor - downPayment.
C18_DownPaymentCappedAtOutTheDoor ==
  LET r == dpCalculate
      outTheDoor == calculate.outTheDoor
  IN /\ r.downPayment = Min(state.downPayment, outTheDoor)
     /\ r.amountFinanced = Max(0, outTheDoor - r.downPayment)
     /\ r.cashInvested = outTheDoor - r.downPayment

\* C18, its case: a priced vehicle with more requested down than is due (the
\* slider was dragged to its maximum, which is the amount due rounded up).
C18_RequestedAboveOutTheDoor ==
  /\ ui.page = "dp"
  /\ state.vehiclePrice > 0
  /\ calculate.outTheDoor > 0
  /\ state.downPayment > calculate.outTheDoor
  /\ dpCalculate.downPayment = calculate.outTheDoor

(***************************************************************************)
(* Properties of the finance-versus-cash-down verdict                      *)
(***************************************************************************)
\* What the page reports: the badge and the insight block are seen only
\* while the results content is displayed.
badgeReported == ui.contentShown /\ ui.verdict # "hidden"
insightReported == ui.contentShown /\ ui.insight # "none"

\* investmentGainNet - totalInterest of the current result.
investNetBeat ==
  (dpCalculate.investmentValueNet - dpCalculate.cashInvested)
    - dpCalculate.totalInterest

\* C19 (under AprSpec): a reported verdict is "financing favorable" when
\* investmentGainNet - totalInterest >= 0, equality included, and "cash-down
\* favorable" when it is < 0; a reported verdict is one of these two.
C19_VerdictFollowsSign ==
  /\ badgeReported =>
       ui.verdict = IF investNetBeat >= 0 THEN "dp-verdict-invest"
                    ELSE "dp-verdict-paydown"
  /\ insightReported =>
       ui.insight = IF investNetBeat >= 0 THEN "financing ahead"
                    ELSE "more down saves"

\* C19, its case: under the poor tier the loan costs more than the
\* investment earns, and the badge says so.
C19_CashDownReported ==
  /\ badgeReported /\ ui.verdict = "dp-verdict-paydown"
  /\ state.creditTier = "poor"
  /\ investNetBeat < 0
  /\ dpCalculate.investmentValueNet > dpCalculate.totalInterest

\* C20 (under AprSpec): for a result with cashInvested <= 0 or
\* amountFinanced <= 0 neither the badge nor the insight block reports a
\* verdict; when both report, they report the same one.
C20_NoVerdictWithoutTradeOff ==
  /\ (dpCalculate.cashInvested <= 0 \/ dpCalculate.amountFinanced <= 0)
       => ~badgeReported /\ ~insightReported
  /\ (badgeReported /\ insightReported) =>
       (ui.verdict = "dp-verdict-invest" <=> ui.insight = "financing ahead")

\* C20, its case: the whole amount due is paid down on a priced vehicle, so
\* nothing is financed and nothing stays invested.
C20_PaidInFull ==
  /\ ui.page = "dp" /\ ui.contentShown
  /\ dpCalculate.outTheDoor > 0
  /\ dpCalculate.downPayment = dpCalculate.outTheDoor
  /\ dpCalculate.amountFinanced = 0 /\ dpCalculate.cashInvested = 0
  /\ ui.verdict = "hidden" /\ ui.insight = "none"

probeInterest == probe.result.value * probe.termMonths - probe.principal

\* A direct call at a rate of zero, for a positive principal and a term of
\* the payments table.
zeroRateCall ==
  /\ probe.called /\ probe.annualRate = 0
  /\ probe.principal > 0 /\ probe.termMonths \in Terms

C23_OnlyTheGainIsTaxed ==
  LET r == dpCalculate
      fv == IF r.cashInvested > 0
              THEN mulDiv(r.cashInvested,
                          pow((Scale + state.investmentReturn) * (Fine \div Scale),
                              state.selectedTerm \div 12), Fine)
              ELSE 0
  IN /\ r.investmentGain = Max(0, fv - r.cashInvested)
     /\ r.investmentTax = mulDiv(r.investmentGain, state.gainsTaxRate, Scale)
     /\ r.investmentValueNet = fv - r.investmentTax
     /\ (state.investmentReturn >= 0 /\ state.gainsTaxRate \in 0..Scale)
          => r.investmentValueNet >= r.cashInvested
     /\ r.cashInvested <= 0
          => fv = 0 /\ r.investmentGain = 0 /\ r.investmentTax = 0

\* C23, its case: cash is invested at a positive return under a gains tax
\* within [0,1], and tax is taken from the gain.
C23_GainTaxed ==
  /\ state.vehiclePrice > 0
  /\ dpCalculate.cashInvested > 0
  /\ state.investmentReturn = 1200 /\ state.gainsTaxRate = 1500
  /\ dpCalculate.investmentTax > 0
  /\ dpCalculate.investmentValueNet > dpCalculate.cashInvested

\* CONFIG.downPaymentCalc.residualByTerm[term]
residualByTerm(term) == CONFIG.downPaymentCalc.residualByTerm[term]

\* C24 (under InvestSpec): while the residual field is not overridden by
\* the user, the residual percentage dpCalculate uses is the table value of
\* the selected term; once overridden, a change of term keeps the override;
\* clearing the field and leaving it restores the selected term's table
\* value.
C24_ResidualFollowsTermUnlessOverridden ==
  /\ [](~ui.residualUserEdited => state.residualPct = residualByTerm(state.selectedTerm))
  /\ [][/\ (ui.residualUserEdited /\ state'.selectedTerm # state.selectedTerm)
             => (ui'.residualUserEdited /\ state'.residualPct = state.residualPct)
        /\ (ui.residualUserEdited /\ ~ui'.residualUserEdited)
             => (ui.residualBlank
                 /\ state'.residualPct = residualByTerm(state'.selectedTerm))]_vars

\* C24, its case: the residual is overridden with 55 and 84 months, whose
\* table value differs, are selected.
C24_OverrideKeptAcrossTerms ==
  /\ ui.residualUserEdited
  /\ state.selectedTerm = 84
  /\ state.residualPct = 5500
  /\ residualByTerm(84) # 5500

(***************************************************************************)
(* Properties of the lists and fields that feed the engines                *)
(***************************************************************************)
\* C25 (under ItemSpec): after any sequence of add, price-edit and remove
\* operations no two add-ons share an id, no two discounts share an id, and
\* every add-on price and discount amount is >= 0.
C25_ItemIdsUniqueAmountsNonNegative ==
  /\ \A i, j \in 1..Len(state.addons) :
       state.addons[i].id = state.addons[j].id => i = j
  /\ \A i, j \in 1..Len(state.discounts) :
       state.discounts[i].id = state.discounts[j].id => i = j
  /\ \A i \in 1..Len(state.addons) : state.addons[i].price >= 0
  /\ \A i \in 1..Len(state.discounts) : state.discounts[i].amount >= 0

\* C25, its case: two add-ons and two discounts are listed, the first of
\* each priced.
C25_TwoOfEachListed ==
  /\ Len(state.addons) = 2 /\ Len(state.discounts) = 2
  /\ state.addons[1].id = "gap" /\ state.addons[2].id = "ceramic"
  /\ state.addons[1].price = Dollars(1500)
  /\ state.discounts[1].amount = Dollars(1500)

\* C26, as stated (under InvestSpec): after any sequence of edits to the
\* investment-return, gains-tax and residual fields the three values stored
\* in state are decimals in [0,1].
C26_PercentagesWithinUnitInterval ==
  /\ state.investmentReturn \in 0..Scale
  /\ state.gainsTaxRate \in 0..Scale
  /\ state.residualPct \in 0..Scale

\* C26, its case: 150 was typed into the gains-tax field and into the
\* residual field of a priced vehicle, and dpCalculate uses both.
C26_HundredFiftyTyped ==
  /\ state.vehiclePrice > 0
  /\ state.gainsTaxRate = 15000 /\ state.residualPct = 15000
  /\ dpCalculate.residualValue > state.vehiclePrice
  /\ dpCalculate.investmentTax > dpCalculate.investmentGain

\* C27, as stated (under DpSpec): after every handler of the down-payment
\* page state.downPayment lies between 0 and max(0, outTheDoor) of the
\* resulting state.
C27_DownPaymentWithinAmountDue ==
  ui.page = "dp" =>
    /\ state.downPayment >= 0
    /\ state.downPayment <= Max(0, calculate.outTheDoor)

\* C27, its case: the slider was dragged to its maximum, the amount due
\* rounded up to a whole dollar, and the down payment stored is that maximum.
C27_SliderAtRoundedMax ==
  /\ ui.page = "dp"
  /\ calculate.outTheDoor > 0
  /\ ui.sliderMax = round(calculate.outTheDoor)
  /\ ui.sliderMax > calculate.outTheDoor
  /\ ui.sliderValue = ui.sliderMax
  /\ state.downPayment = ui.sliderMax

\* C28, as stated (under AprSpec): on the down-payment page the APR shown in
\* the APR field is the APR dpCalculate uses for the selected term (as typed,
\* or as written with two decimals), whenever the field shows a rate.
C28_ShownAprIsUsedApr ==
  (ui.page = "dp" /\ ~ui.aprBlank) =>
    \/ ui.aprInput = getAprForTerm(state.selectedTerm).rate
    \/ ui.aprInput = toFixed2(getAprForTerm(state.selectedTerm).rate)

\* C28, its case: 2.9 was typed while 60 months were selected; 84 months are
\* selected now, the field still shows 2.9, and the 84-month payment is
\* computed with the tier table's rate.
C28_TypedRateShownForOtherTerm ==
  /\ ui.page = "dp" /\ ui.aprUserEdited /\ ~ui.aprBlank
  /\ state.selectedTerm = 84
  /\ ui.aprInput = Pct(290)
  /\ state.specialAprs = <<[term |-> 60, rate |-> Pct(290)]>>
  /\ ~getAprForTerm(84).isSpecial
  /\ dpCalculate.apr = CONFIG.creditTiers[state.creditTier][84]
  /\ dpCalculate.apr # ui.aprInput

\* C29 (under OtdSpec): after any ZIP-field edits the rate and Cook-County
\* flag that calculate() reads are those of the ZIP now in the field: the
\* table's entry for a 5-digit ZIP listed in TAX_RATES, and otherwise (fewer
\* than 5 digits, or not listed) the default rate and not Cook County.
C29_RateFollowsCurrentZip ==
  ui.page = "otd" =>
    IF Len(state.zipCode) = 5 /\ state.zipCode \in DOMAIN TAX_RATES
    THEN /\ state.taxRate = TAX_RATES[state.zipCode].rate
         /\ state.isCookCounty = (TAX_RATES[state.zipCode].county = "Cook")
    ELSE /\ state.taxRate = CONFIG.defaultTaxRate
         /\ ~state.isCookCounty

\* C29, the case that breaks it: a Cook County ZIP of the rate table was
\* entered and the field now holds three digits, with the Cook County rate
\* and fee still in calculate()'s result.
C29_CookRateKeptForPartialZip ==
  /\ ui.page = "otd" /\ config = "part_001"
  /\ Len(state.zipCode) = 3
  /\ state.taxRate = TAX_RATES[Z60025].rate
  /\ state.isCookCounty
  /\ state.taxRate # CONFIG.defaultTaxRate
  /\ calculate.nonTaxableFees =
       nonTaxableFeesOf(CONFIG.fees, TRUE)

\* C30 (under DpSpec): in every result of dpCalculate() cashInvested equals
\* amountFinanced, both are >= 0, and amountFinanced equals the
\* amountToFinance calculate() reports for the same state, whatever the down
\* payment and the sign of outTheDoor.
C30_CashInvestedIsAmountFinanced ==
  \A r \in {dpCalculate} :
    /\ r.cashInvested = r.amountFinanced
    /\ r.amountFinanced >= 0
    /\ r.amountFinanced = calculate.amountToFinance

\* C30, its case: a trade-in worth more than everything due, so that
\* outTheDoor is negative and the down payment in state exceeds it.
C30_NegativeOutTheDoor ==
  /\ ui.page = "dp"
  /\ calculate.outTheDoor < 0
  /\ state.downPayment > calculate.outTheDoor
  /\ dpCalculate.downPayment = calculate.outTheDoor
  /\ dpCalculate.cashInvested = 0

====
